---- MODULE Spec2Model ----
(***************************************************************************)
(* QuestionPaper (src/src/question_paper/mod.rs): a cursor over an ordered *)
(* sequence of Question / Section nodes, resolved through read, write and  *)
(* meta intents.  Indices are zero-based as in the source: node i of the    *)
(* Vec is element i + 1 of the sequence nodes.                              *)
(***************************************************************************)
EXTENDS Integers, Sequences, FiniteSets, Bags, TLC

VARIABLES nodes, last_index, total_questions, overflow_checks,
          prev_index, marked, skipped, notes,
          intent, result, old, steps

vars == <<nodes, last_index, total_questions, overflow_checks,
          prev_index, marked, skipped, notes, intent, result, old, steps>>

(* ------------------------------ bounds -------------------------------- *)

\* longest generated node sequence (the worked example of the spec is added)
MaxLen == 1
\* largest magnitude of an ordinary reference offset
MaxOffset == 1
\* an offset beyond every generated sequence (Start(10) of the spec)
FarOffset == 10
\* longest read list of a write intent
MaxReads == 2
\* intents resolved in one session
MaxSteps == 2
\* width of usize in bits; the wrapped counter only has to exceed len()
UsizeBits == 16

(* ------------------------- nodes and predicates ------------------------ *)

Kinds == {"Question", "Section"}

\* Node as the builder produces it: its own position, its tag, its content
MkNode(i, k) == [index |-> i, kind |-> k, data |-> <<k, i>>]

NodesOf(ks) == [j \in 1..Len(ks) |-> MkNode(j - 1, ks[j])]

KindSeqs(n) == [1..n -> Kinds]

\* the sequence of the spec's worked examples, and one with two Questions
ExamplePaper == <<"Question", "Section", "Question", "Question", "Section">>
TwoQuestionsPaper == <<"Question", "Section", "Question">>

Papers == (UNION {KindSeqs(n) : n \in 1..MaxLen}) \cup {ExamplePaper, TwoQuestionsPaper}

\* QuestionPaper::len
len == Len(nodes)

\* Predicate::matches for QuestionPredicate / SectionPredicate
matches(predicate, node) == node.kind = predicate

None == [some |-> FALSE]
Some(v) == [some |-> TRUE, value |-> v]

\* QuestionPaper::nth -> NodeIndex::new
nth(index) == IF index >= 0 /\ index < len THEN Some(nodes[index + 1]) ELSE None

(* ------------------------------ intents -------------------------------- *)

Anchors == {"Start", "Current", "End"}
Offsets == ((0 - MaxOffset)..MaxOffset) \cup {FarOffset}
References == [anchor : Anchors, n : Offsets]
Reads == [predicate : Kinds, reference : References]

\* the reads a write intent lists: "the first question", "the next section"
BatchReads == {[predicate |-> "Question", reference |-> [anchor |-> "Start", n |-> 0]],
               [predicate |-> "Section", reference |-> [anchor |-> "Current", n |-> 0]]}
ReadLists == UNION {[1..k -> BatchReads] : k \in 0..MaxReads}

Texts == {"a", "b"}

abs(n) == IF n < 0 THEN 0 - n ELSE n

\* Reference::is_forward
is_forward(reference) ==
    CASE reference.anchor = "Start" -> TRUE
      [] reference.anchor = "Current" -> reference.n >= 0
      [] reference.anchor = "End" -> FALSE

(* ------------------------------ results -------------------------------- *)

Ok(node) == [kind |-> "Ok", node |-> node]
Err(msg) == [kind |-> "Err", msg |-> msg]
\* a panic of the thread (arithmetic overflow check, unwrap on None)
Panic == [kind |-> "Panic"]

(* ------------------------------- Find ---------------------------------- *)

\* Find::next taking the node one match early (skip > 1 for skip >= 1)
RECURSIVE FindNextEarly(_, _, _)
FindNextEarly(predicate, next, skip) ==
    IF next < len
    THEN LET node == nth(next)
         IN IF ~node.some THEN Panic
            ELSE IF matches(predicate, node.value)
                 THEN IF skip > 1
                      THEN FindNextEarly(predicate, next + 1, skip - 1)
                      ELSE Ok(node.value)
                 ELSE FindNextEarly(predicate, next + 1, skip)
    ELSE Err("none")

\* Iterator::next for Find
RECURSIVE FindNext(_, _, _)
FindNext(predicate, next, skip) ==
    IF next < len
    THEN LET node == nth(next)
         IN IF ~node.some THEN Panic
            ELSE IF matches(predicate, node.value)
                 THEN IF skip >= 1
                      THEN FindNext(predicate, next + 1, skip - 1)
                      ELSE Ok(node.value)
                 ELSE FindNext(predicate, next + 1, skip)
    ELSE Err("none")

\* DoubleEndedIterator::next_back for Find
RECURSIVE FindNextBack(_, _, _)
FindNextBack(predicate, next, skip) ==
    IF next > 0
    THEN LET node == nth(next)
         IN IF ~node.some THEN Panic
            ELSE IF matches(predicate, node.value)
                 THEN IF skip >= 1
                      THEN FindNextBack(predicate, next - 1, skip - 1)
                      ELSE Ok(node.value)
                 ELSE FindNextBack(predicate, next - 1, skip)
    ELSE Err("none")

\* the indices Find::next examines, in the order it examines them
RECURSIVE NextExamined(_, _, _, _)
NextExamined(predicate, next, skip, seen) ==
    IF next < len
    THEN LET node == nth(next)
         IN IF ~node.some THEN Append(seen, next)
            ELSE IF matches(predicate, node.value)
                 THEN IF skip >= 1
                      THEN NextExamined(predicate, next + 1, skip - 1, Append(seen, next))
                      ELSE Append(seen, next)
                 ELSE NextExamined(predicate, next + 1, skip, Append(seen, next))
    ELSE seen

\* next_back stepping with the += 1 of next
RECURSIVE BackExaminedUpward(_, _, _, _)
BackExaminedUpward(predicate, next, skip, seen) ==
    IF next > 0
    THEN LET node == nth(next)
         IN IF ~node.some THEN Append(seen, next)
            ELSE IF matches(predicate, node.value)
                 THEN IF skip >= 1
                      THEN BackExaminedUpward(predicate, next + 1, skip - 1, Append(seen, next))
                      ELSE Append(seen, next)
                 ELSE BackExaminedUpward(predicate, next + 1, skip, Append(seen, next))
    ELSE seen

\* the indices Find::next_back examines, in the order it examines them
RECURSIVE BackExamined(_, _, _, _)
BackExamined(predicate, next, skip, seen) ==
    IF next > 0
    THEN LET node == nth(next)
         IN IF ~node.some THEN Append(seen, next)
            ELSE IF matches(predicate, node.value)
                 THEN IF skip >= 1
                      THEN BackExamined(predicate, next - 1, skip - 1, Append(seen, next))
                      ELSE Append(seen, next)
                 ELSE BackExamined(predicate, next - 1, skip, Append(seen, next))
    ELSE seen

\* QuestionPaper::find: the Find is built with skip - 1 on a usize
find(predicate, next, skip) ==
    IF skip = 0 /\ overflow_checks
    THEN Panic
    ELSE [kind |-> "Find", predicate |-> predicate, next |-> next,
          skip |-> (skip - 1) % (2 ^ UsizeBits)]

\* Reader::find_next
find_next(finder) ==
    LET r == FindNext(finder.predicate, finder.next, finder.skip)
    IN IF r.kind = "Err" THEN Err("Could not find a next node") ELSE r

\* find_back driving the iterator from the front
find_back_forward(finder) ==
    LET r == FindNext(finder.predicate, finder.next, finder.skip)
    IN IF r.kind = "Err" THEN Err("Could not resolve a previous node") ELSE r

\* Reader::find_back
find_back(finder) ==
    LET r == FindNextBack(finder.predicate, finder.next, finder.skip)
    IN IF r.kind = "Err" THEN Err("Could not resolve a previous node") ELSE r

\* Reader::resolve
resolve(predicate, prev, skip, reference) ==
    LET finder == find(predicate, prev, skip)
    IN IF finder.kind = "Panic" THEN Panic
       ELSE IF is_forward(reference) THEN find_next(finder)
                                     ELSE find_back(finder)

\* resolve_referece passing |n| for Current as it does for Start and End
resolve_referece_same_skip(reference, predicate) ==
    LET prev == CASE reference.anchor = "Start" -> 0
                  [] reference.anchor = "Current" -> prev_index
                  [] reference.anchor = "End" -> last_index
        skip == abs(reference.n)
    IN resolve(predicate, prev, skip, reference)

\* Reader::resolve_referece
resolve_referece(reference, predicate) ==
    LET prev == CASE reference.anchor = "Start" -> 0
                  [] reference.anchor = "Current" -> prev_index
                  [] reference.anchor = "End" -> last_index
        skip == CASE reference.anchor = "Start" -> abs(reference.n)
                  [] reference.anchor = "Current" -> abs(reference.n) + 1
                  [] reference.anchor = "End" -> abs(reference.n)
    IN resolve(predicate, prev, skip, reference)

\* Reader::resolve_read_intent (resolve_question / resolve_section)
resolve_read_intent(read) == resolve_referece(read.reference, read.predicate)

\* QuestionPaper::find_node: every read is resolved, the last result is kept
RECURSIVE find_node_loop(_, _, _)
find_node_loop(reads, i, node) ==
    IF i > Len(reads) THEN node
    ELSE LET r == resolve_read_intent(reads[i])
         IN IF r.kind = "Panic" THEN Some(Panic)
            ELSE find_node_loop(reads, i + 1, Some(r))

find_node(reads) ==
    LET node == find_node_loop(reads, 1, None)
    IN IF ~node.some THEN Err("Could not find the specified request")
       ELSE node.value

(* ---------------------------- session state ---------------------------- *)

\* HashMap<usize, NodeData> as a bag of entries, so that a duplicate shows
HashMapNew == EmptyBag

\* an insert that keeps the entry already stored under the key
HashMapInsertKeeping(m, k, v) == m (+) SetToBag({[key |-> k, data |-> v]})

HashMapInsert(m, k, v) ==
    LET kept == {e \in DOMAIN m : e.key # k}
    IN [e \in kept |-> m[e]] (+) SetToBag({[key |-> k, data |-> v]})

HashMapLen(m) == BagCardinality(m)

Keys(m) == {e.key : e \in DOMAIN m}

\* the mutable part of the session as it was when the last intent arrived
Snapshot == [prev_index |-> prev_index, marked |-> marked,
             skipped |-> skipped, notes |-> notes]

\* QuestionPaper::new, on the sequences a builder hands over
Init ==
    /\ \E ks \in Papers :
          /\ nodes = NodesOf(ks)
          /\ last_index \in 0..(Len(ks) - 1)
          /\ total_questions = Cardinality({i \in 1..Len(ks) : ks[i] = "Question"})
    /\ overflow_checks \in BOOLEAN
    /\ prev_index = 0
    /\ marked = HashMapNew
    /\ skipped = HashMapNew
    /\ notes = <<>>
    /\ intent = [type |-> "None"]
    /\ result = [kind |-> "None"]
    /\ old = [prev_index |-> 0, marked |-> HashMapNew,
              skipped |-> HashMapNew, notes |-> <<>>]
    /\ steps = 0

\* the session takes another intent: it has not panicked
Running == steps < MaxSteps /\ result.kind # "Panic"

Frame == UNCHANGED <<nodes, last_index, total_questions, overflow_checks>>

Called(i) == /\ Running
             /\ intent' = i
             /\ old' = Snapshot
             /\ steps' = steps + 1
             /\ Frame

\* update_previous storing the position after the node
update_previous_next(index) == prev_index' = index + 1

\* update_previous that drops the new index
update_previous_stale(index) == prev_index' = prev_index

\* QuestionPaper::update_previous
update_previous(index) == prev_index' = index

\* resolve_intent, Intent::ReadIntent
ReadIntent ==
    \E read \in Reads :
        /\ Called([type |-> "Read", read |-> read])
        /\ \E r \in {resolve_read_intent(read)} :
              /\ IF r.kind = "Ok"
                 THEN update_previous(r.node.index)
                 ELSE UNCHANGED prev_index
              /\ result' = IF r.kind = "Ok"
                           THEN [kind |-> "Read", status |-> "Ok",
                                 data |-> r.node.data, index |-> r.node.index]
                           ELSE IF r.kind = "Err"
                                THEN [kind |-> "Read", status |-> "Err", msg |-> r.msg]
                                ELSE Panic
        /\ UNCHANGED <<marked, skipped, notes>>

WriteSuccess(msg) == [kind |-> "Write", status |-> "Success", msg |-> msg]
WriteError(msg) == [kind |-> "Write", status |-> "Error", msg |-> msg]

\* mark_for_review resolving through the cursor-moving read path
mark_for_review_moving(reads) ==
    \E r \in {find_node(reads)} :
       /\ marked' = IF r.kind = "Ok"
                    THEN HashMapInsert(marked, r.node.index, r.node.data)
                    ELSE marked
       /\ result' = CASE r.kind = "Ok" ->
                           WriteSuccess("Question has been marked for review")
                      [] r.kind = "Err" ->
                           WriteError("Could not mark the specified item for review. Please try again")
                      [] r.kind = "Panic" -> Panic
       /\ prev_index' = IF r.kind = "Ok" THEN r.node.index ELSE prev_index
       /\ UNCHANGED <<skipped, notes>>

\* mark_for_review that also files the node under skipped
mark_for_review_skipping(reads) ==
    \E r \in {find_node(reads)} :
       /\ marked' = IF r.kind = "Ok"
                    THEN HashMapInsert(marked, r.node.index, r.node.data)
                    ELSE marked
       /\ skipped' = IF r.kind = "Ok"
                     THEN HashMapInsert(skipped, r.node.index, r.node.data)
                     ELSE skipped
       /\ result' = CASE r.kind = "Ok" ->
                           WriteSuccess("Question has been marked for review")
                      [] r.kind = "Err" ->
                           WriteError("Could not mark the specified item for review. Please try again")
                      [] r.kind = "Panic" -> Panic
       /\ UNCHANGED <<prev_index, notes>>

\* Writer::mark_for_review
mark_for_review(reads) ==
    \E r \in {find_node(reads)} :
       /\ marked' = IF r.kind = "Ok"
                    THEN HashMapInsert(marked, r.node.index, r.node.data)
                    ELSE marked
       /\ result' = CASE r.kind = "Ok" ->
                           WriteSuccess("Question has been marked for review")
                      [] r.kind = "Err" ->
                           WriteError("Could not mark the specified item for review. Please try again")
                      [] r.kind = "Panic" -> Panic
       /\ UNCHANGED <<prev_index, skipped, notes>>

\* skip resolving through the cursor-moving read path
skip_moving(reads) ==
    \E r \in {find_node(reads)} :
       /\ skipped' = IF r.kind = "Ok"
                     THEN HashMapInsert(skipped, r.node.index, r.node.data)
                     ELSE skipped
       /\ result' = CASE r.kind = "Ok" -> WriteSuccess("Question has been skipped")
                      [] r.kind = "Err" ->
                           WriteError("Could not skip the specified item. Please try again")
                      [] r.kind = "Panic" -> Panic
       /\ prev_index' = IF r.kind = "Ok" THEN r.node.index ELSE prev_index
       /\ UNCHANGED <<marked, notes>>

\* Writer::skip
skip(reads) ==
    \E r \in {find_node(reads)} :
       /\ skipped' = IF r.kind = "Ok"
                     THEN HashMapInsert(skipped, r.node.index, r.node.data)
                     ELSE skipped
       /\ result' = CASE r.kind = "Ok" -> WriteSuccess("Question has been skipped")
                      [] r.kind = "Err" ->
                           WriteError("Could not skip the specified item. Please try again")
                      [] r.kind = "Panic" -> Panic
       /\ UNCHANGED <<prev_index, marked, notes>>

\* note storing the node's position counted from one
note_one_based(reads, text) ==
    \E r \in {find_node(reads)} :
       /\ notes' = IF r.kind = "Ok"
                   THEN Append(notes, [note |-> text, index |-> r.node.index + 1])
                   ELSE notes
       /\ result' = CASE r.kind = "Ok" -> WriteSuccess("A not has been taken")
                      [] r.kind = "Err" -> WriteError("Could not take a note as requested")
                      [] r.kind = "Panic" -> Panic
       /\ UNCHANGED <<prev_index, marked, skipped>>

\* note keeping one note per index: a later note replaces the earlier one
note_replacing(reads, text) ==
    \E r \in {find_node(reads)} :
       /\ notes' = IF r.kind = "Ok"
                   THEN Append(SelectSeq(notes, LAMBDA n : n.index # r.node.index),
                               [note |-> text, index |-> r.node.index])
                   ELSE notes
       /\ result' = CASE r.kind = "Ok" -> WriteSuccess("A not has been taken")
                      [] r.kind = "Err" -> WriteError("Could not take a note as requested")
                      [] r.kind = "Panic" -> Panic
       /\ UNCHANGED <<prev_index, marked, skipped>>

\* Writer::note
note(reads, text) ==
    \E r \in {find_node(reads)} :
       /\ notes' = IF r.kind = "Ok"
                   THEN Append(notes, [note |-> text, index |-> r.node.index])
                   ELSE notes
       /\ result' = CASE r.kind = "Ok" -> WriteSuccess("A not has been taken")
                      [] r.kind = "Err" -> WriteError("Could not take a note as requested")
                      [] r.kind = "Panic" -> Panic
       /\ UNCHANGED <<prev_index, marked, skipped>>

\* resolve_intent, Intent::WriteIntent(Write::Mark)
MarkIntent ==
    \E reads \in ReadLists :
        /\ Called([type |-> "Write", write |-> "Mark", reads |-> reads])
        /\ mark_for_review(reads)

\* resolve_intent, Intent::WriteIntent(Write::Skip)
SkipIntent ==
    \E reads \in ReadLists :
        /\ Called([type |-> "Write", write |-> "Skip", reads |-> reads])
        /\ skip(reads)

\* resolve_intent, Intent::WriteIntent(Write::Note)
NoteIntent ==
    \E reads \in ReadLists, text \in Texts :
        /\ Called([type |-> "Write", write |-> "Note", reads |-> reads, text |-> text])
        /\ note(reads, text)

\* QuestionPaper::num_marked / num_skipped
\* num_marked reading the other map
num_marked_of_skipped == HashMapLen(skipped)

num_marked == HashMapLen(marked)
num_skipped == HashMapLen(skipped)

\* resolve_intent, Intent::Meta
MetaIntent ==
    \E meta \in {"Marked", "Skipped"} :
        /\ Called([type |-> "Meta", meta |-> meta])
        /\ result' = [kind |-> "Meta",
                      msg |-> IF meta = "Marked"
                              THEN "You have " \o ToString(num_marked) \o " marked questions"
                              ELSE "You have skipped " \o ToString(num_skipped) \o " question"]
        /\ UNCHANGED <<prev_index, marked, skipped, notes>>

Next == ReadIntent \/ MarkIntent \/ SkipIntent \/ NoteIntent \/ MetaIntent

Spec == Init /\ [][Next]_vars

(* ------------------------------ properties ---------------------------- *)

IsRead == intent.type = "Read"
IsWrite == intent.type = "Write"
IsMeta == intent.type = "Meta"
ReadOk == result.kind = "Read" /\ result.status = "Ok"
ReadErr == result.kind = "Read" /\ result.status = "Err"
WriteOk == result.kind = "Write" /\ result.status = "Success"
WriteErr == result.kind = "Write" /\ result.status = "Error"
Panicked == result.kind = "Panic"

\* indices of the nodes in lo..hi that satisfy the predicate
Matching(predicate, lo, hi) ==
    {i \in lo..hi : i >= 0 /\ i < len /\ nodes[i + 1].kind = predicate}

\* C1: a Read intent that resolves sets prev_index to the index of the node
\* it resolved to; a Read intent that does not resolve leaves prev_index as
\* it was before the call.
C1_ReadSetsCursor ==
    [][intent'.type = "Read" =>
          LET r == resolve_read_intent(intent'.read)
          IN /\ r.kind = "Ok" => prev_index' = r.node.index
             /\ r.kind # "Ok" => prev_index' = prev_index]_vars

\* a read has moved the cursor off its initial position
C1_Witness == IsRead /\ ReadOk /\ prev_index = result.index /\ prev_index # old.prev_index

\* C2: Write intents (Mark, Skip, Note, whatever their read list does) and
\* Meta intents (Marked, Skipped) leave prev_index as it was before the call.
C2_WriteMetaKeepCursor ==
    [][intent'.type \in {"Write", "Meta"} => prev_index' = prev_index]_vars

\* a write succeeded on a node other than the one the cursor stayed on
C2_Witness ==
    /\ IsWrite /\ WriteOk /\ intent.write = "Mark" /\ Len(intent.reads) = 2
    /\ prev_index = old.prev_index
    /\ \E e \in DOMAIN marked : e.key # prev_index

\* C3: a Read with reference Current(n), n >= 0, that succeeds resolves to
\* an index strictly greater than the prev_index it started from.
C3_CurrentMovesPast ==
    (IsRead /\ intent.read.reference.anchor = "Current"
            /\ intent.read.reference.n >= 0 /\ ReadOk)
        => result.index > old.prev_index

\* C4: a Read with reference Start(n) resolves to the matching node that has
\* exactly |n| matching nodes before it, whenever the sequence has one.
C4_StartZeroBased ==
    (IsRead /\ intent.read.reference.anchor = "Start") =>
        LET predicate == intent.read.predicate
            k == abs(intent.read.reference.n)
        IN /\ ReadOk => /\ result.index \in Matching(predicate, 0, len - 1)
                        /\ Cardinality(Matching(predicate, 0, result.index - 1)) = k
           /\ \A i \in Matching(predicate, 0, len - 1) :
                 Cardinality(Matching(predicate, 0, i - 1)) = k
                     => ReadOk /\ result.index = i

\* C5: a Read with reference End(n) resolves to the matching node in
\* [0, last_index] that has exactly |n| matching nodes after it within
\* [0, last_index], whenever the sequence has one.
C5_EndZeroBased ==
    (IsRead /\ intent.read.reference.anchor = "End") =>
        LET predicate == intent.read.predicate
            k == abs(intent.read.reference.n)
        IN /\ ReadOk => /\ result.index \in Matching(predicate, 0, last_index)
                        /\ Cardinality(Matching(predicate, result.index + 1, last_index)) = k
           /\ \A i \in Matching(predicate, 0, last_index) :
                 Cardinality(Matching(predicate, i + 1, last_index)) = k
                     => ReadOk /\ result.index = i

\* the same write taken with the read list <<Last(reads)>>
SameWriteWith(reads) ==
    CASE intent'.write = "Mark" -> mark_for_review(reads)
      [] intent'.write = "Skip" -> skip(reads)
      [] intent'.write = "Note" -> note(reads, intent'.text)

\* C6: a Write intent with a non-empty read list has the effect and the
\* result of the same write with the one-element list of its last read.
C6_LastReadDecides ==
    [][(intent'.type = "Write" /\ Len(intent'.reads) >= 1) =>
          SameWriteWith(<<intent'.reads[Len(intent'.reads)]>>)]_vars

\* C7: a Write intent whose read list is empty or whose last read does not
\* resolve returns WriteResult::Error and leaves prev_index, marked, skipped
\* and notes as they were.
C7_FailedWriteNoEffect ==
    [][(intent'.type = "Write" /\
          (\/ intent'.reads = <<>>
           \/ /\ intent'.reads # <<>>
              /\ resolve_read_intent(intent'.reads[Len(intent'.reads)]).kind # "Ok"))
        => /\ result'.kind = "Write" /\ result'.status = "Error"
           /\ UNCHANGED <<prev_index, marked, skipped, notes>>]_vars

\* C8: resolve_intent returns a value for every intent: it never panics.
C8_NeverAborts == ~Panicked

\* the matches the reference asks the search to pass (resolve_referece)
Required(reference) ==
    IF reference.anchor = "Current" THEN abs(reference.n) + 1 ELSE abs(reference.n)

\* the matching nodes on the searched side of the reference's anchor
Available(read) ==
    CASE read.reference.anchor = "Start" -> Matching(read.predicate, 0, len - 1)
      [] read.reference.anchor = "End" -> Matching(read.predicate, 0, last_index)
      [] read.reference.anchor = "Current" ->
            IF read.reference.n >= 0
            THEN Matching(read.predicate, prev_index, len - 1)
            ELSE Matching(read.predicate, 0, prev_index)

\* C9: a Read whose reference asks for more matching nodes than the
\* sequence holds on the searched side returns an error, not a node, and
\* leaves prev_index as it was.
C9_TooFewIsNotFound ==
    [][(intent'.type = "Read" /\
          Cardinality(Available(intent'.read)) < Required(intent'.read.reference))
        => /\ result'.kind = "Read" /\ result'.status = "Err"
           /\ prev_index' = prev_index]_vars

\* Question(Start(10)) on a sequence with two Questions came back as an error
C9_Witness ==
    /\ IsRead /\ ReadErr
    /\ intent.read = [predicate |-> "Question",
                      reference |-> [anchor |-> "Start", n |-> FarOffset]]
    /\ Cardinality(Matching("Question", 0, len - 1)) = 2
    /\ prev_index = old.prev_index

OneEntryPerKey(m) ==
    /\ \A e \in DOMAIN m : m[e] = 1
    /\ \A e, f \in DOMAIN m : e.key = f.key => e = f

\* C10: marked and skipped hold at most one entry per node index, and a
\* successful Mark (Skip) on an index already in marked (skipped) leaves
\* the number of entries as it was.
C10_MarkIdempotent ==
    [][/\ OneEntryPerKey(marked') /\ OneEntryPerKey(skipped')
       /\ (intent'.type = "Write" /\ result'.kind = "Write"
             /\ result'.status = "Success") =>
            LET r == find_node(intent'.reads)
            IN /\ (intent'.write = "Mark" /\ r.node.index \in Keys(marked))
                     => HashMapLen(marked') = HashMapLen(marked)
               /\ (intent'.write = "Skip" /\ r.node.index \in Keys(skipped))
                     => HashMapLen(skipped') = HashMapLen(skipped)]_vars

\* a second Mark succeeded on the index that was already marked
C10_Witness ==
    /\ IsWrite /\ WriteOk /\ intent.write = "Mark"
    /\ HashMapLen(old.marked) = 1
    /\ Keys(old.marked) = Keys(marked)
    /\ HashMapLen(marked) = 1
\* the index a write intent taken from the current state resolves to
Target(reads) == find_node(reads).node.index

C12_IndicesInRange ==
    /\ \A k \in Keys(marked) \cup Keys(skipped) : k >= 0 /\ k < len
    /\ \A j \in 1..Len(notes) : notes[j].index >= 0 /\ notes[j].index < len

\* a mark and a note were taken on the last node of the sequence
C12_Witness ==
    /\ len - 1 \in Keys(marked) \cup Keys(skipped)
    /\ \E j \in 1..Len(notes) : notes[j].index = len - 1

\* C13: a successful Note intent appends one {index, text} record with the
\* resolved index at the end of notes, and no intent changes, removes or
\* reorders the records already there.
C13_NotesAppendOnly ==
    [][IF intent'.type = "Write" /\ intent'.write = "Note"
          /\ result'.kind = "Write" /\ result'.status = "Success"
       THEN notes' = Append(notes, [note |-> intent'.text,
                                    index |-> Target(intent'.reads)])
       ELSE notes' = notes]_vars

\* two notes on the same index are both there, the later one last
C13_Witness ==
    /\ IsWrite /\ WriteOk /\ intent.write = "Note"
    /\ Len(notes) = 2 /\ Len(old.notes) = 1
    /\ notes[1] = old.notes[1]
    /\ notes[1].index = notes[2].index
    /\ notes[2].note = intent.text /\ notes[1].note # notes[2].note
\* C14: a Read with reference Current(n), n < 0, that succeeds returns the
\* matching node that has exactly |n| matching nodes between it and the
\* prev_index it started from (that one included): never an index above
\* prev_index, and one strictly below it when the node at prev_index matches.
C14_CurrentBackward ==
    (IsRead /\ intent.read.reference.anchor = "Current"
            /\ intent.read.reference.n < 0 /\ ReadOk) =>
        LET predicate == intent.read.predicate
            from == old.prev_index
        IN /\ result.index <= from
           /\ nodes[from + 1].kind = predicate => result.index < from
           /\ nodes[result.index + 1].kind = predicate
           /\ Cardinality(Matching(predicate, result.index + 1, from))
                 = abs(intent.read.reference.n)

\* Current(-1) stepped back from a matching node to the match before it
C14_Witness ==
    /\ IsRead /\ ReadOk
    /\ intent.read.reference = [anchor |-> "Current", n |-> 0 - 1]
    /\ nodes[old.prev_index + 1].kind = intent.read.predicate
    /\ result.index < old.prev_index

\* the index a reference is anchored at, for the intent just taken
AnchorOf(reference, cursor) ==
    CASE reference.anchor = "Start" -> 0
      [] reference.anchor = "Current" -> cursor
      [] reference.anchor = "End" -> last_index

\* C15: a backward Read (End(n), or Current(n) with n < 0) whose search has
\* to come down to index 0 for its match resolves to index 0.
C15_BackwardReachesZero ==
    (/\ IsRead /\ ~is_forward(intent.read.reference)
     /\ Required(intent.read.reference) >= 1
     /\ nodes[1].kind = intent.read.predicate
     /\ Cardinality(Matching(intent.read.predicate, 1,
                             AnchorOf(intent.read.reference, old.prev_index)))
           = Required(intent.read.reference) - 1)
        => ReadOk /\ result.index = 0

\* what the reads of an intent are: its own read, or the reads it lists
ReadsOf(i) == IF i.type = "Read" THEN <<i.read>>
              ELSE IF i.type = "Write" THEN i.reads ELSE <<>>

\* C16: every resolution that succeeds returns a node of the sequence that
\* satisfies the predicate, at its own index in [0, nodes.len()), at or
\* after the anchor for a forward reference and at or before it for a
\* backward one.
C16_ResolvedNodeIsSound ==
    [][/\ \A read \in {ReadsOf(intent')[j] : j \in 1..Len(ReadsOf(intent'))} :
          \A r \in {resolve_read_intent(read)} :
            r.kind = "Ok" =>
              /\ r.node.index >= 0 /\ r.node.index < len
              /\ nodes[r.node.index + 1] = r.node
              /\ r.node.kind = read.predicate
              /\ IF is_forward(read.reference)
                 THEN r.node.index >= AnchorOf(read.reference, prev_index)
                 ELSE r.node.index <= AnchorOf(read.reference, prev_index)
       /\ (intent'.type = "Read" /\ result'.kind = "Read" /\ result'.status = "Ok") =>
            /\ nodes[result'.index + 1].kind = intent'.read.predicate
            /\ nodes[result'.index + 1].data = result'.data]_vars

\* an End read came back with a matching node below last_index
C16_Witness ==
    /\ IsRead /\ ReadOk /\ intent.read.reference.anchor = "End"
    /\ result.index < last_index
    /\ nodes[result.index + 1].kind = intent.read.predicate
Examined(read) ==
    LET finder == find(read.predicate, AnchorOf(read.reference, prev_index),
                       Required(read.reference))
    IN IF finder.kind = "Panic" THEN <<>>
       ELSE IF is_forward(read.reference)
            THEN NextExamined(finder.predicate, finder.next, finder.skip, <<>>)
            ELSE BackExamined(finder.predicate, finder.next, finder.skip, <<>>)

\* C18: the search of every read examines indices of the sequence in
\* strictly increasing order when forward and strictly decreasing order
\* when backward, so at most nodes.len() of them, and the node it returns
\* is the last one it examined.
C18_SearchNeverRevisits ==
    [][\A read \in {ReadsOf(intent')[j] : j \in 1..Len(ReadsOf(intent'))} :
          \A e \in {Examined(read)}, r \in {resolve_read_intent(read)} :
             /\ Len(e) <= len
             /\ \A k \in 1..Len(e) : e[k] >= 0 /\ e[k] < len
             /\ \A k \in 1..(Len(e) - 1) :
                   IF is_forward(read.reference) THEN e[k + 1] > e[k]
                                                 ELSE e[k + 1] < e[k]
             /\ r.kind = "Ok" => (e # <<>> /\ e[Len(e)] = r.node.index)]_vars

\* a search went through the whole sequence and came back not found
C18_Witness ==
    /\ IsRead /\ ReadErr /\ len > 1
    /\ Len(Examined(intent.read)) = len
\* C19: prev_index is the index of a node in every state: it is 0 after
\* construction and lies in [0, nodes.len()) after every intent.
C19_CursorInRange ==
    /\ steps = 0 => prev_index = 0
    /\ prev_index >= 0 /\ prev_index < len

\* a read has put the cursor on the last node of the sequence
C19_Witness == IsRead /\ ReadOk /\ len > 1 /\ prev_index = len - 1

\* C20: a Read intent leaves marked, skipped and notes alone, Mark changes
\* only marked, Skip only skipped, Note only notes, and no intent changes
\* nodes, last_index or total_questions.
C20_IntentFrame ==
    [][/\ UNCHANGED <<nodes, last_index, total_questions>>
       /\ intent'.type = "Read" => UNCHANGED <<marked, skipped, notes>>
       /\ (intent'.type = "Write" /\ intent'.write = "Mark") =>
            UNCHANGED <<prev_index, skipped, notes>>
       /\ (intent'.type = "Write" /\ intent'.write = "Skip") =>
            UNCHANGED <<prev_index, marked, notes>>
       /\ (intent'.type = "Write" /\ intent'.write = "Note") =>
            UNCHANGED <<prev_index, marked, skipped>>]_vars

\* a Mark added to marked next to an entry that stayed in skipped
C20_Witness ==
    /\ IsWrite /\ WriteOk /\ intent.write = "Mark"
    /\ marked # old.marked
    /\ skipped = old.skipped /\ HashMapLen(skipped) = 1
    /\ notes = old.notes /\ prev_index = old.prev_index
====
